---- MODULE Spec2Model ----
(***************************************************************************)
(* Model of aiida_quantumespresso/workflows/protocols/utils.py:            *)
(* recursive_merge, load_protocol_file, get_available_protocols,           *)
(* get_protocol_inputs and get_initial_magnetization.                      *)
(*                                                                         *)
(* Python objects live on a heap: a dict is a heap cell holding a function *)
(* from keys to values, and a value is a scalar, a sequence or a reference *)
(* to another dict.  The functions are translated on that heap, so the     *)
(* in-place assignments of recursive_merge and the sharing created by      *)
(* dict.copy / dict.update are part of the model.  What a caller can       *)
(* observe of an object is its deep value, a tree: a function from key     *)
(* paths to nodes.                                                         *)
(***************************************************************************)
EXTENDS Integers, Sequences, FiniteSets, TLC

VARIABLES
    pc,          \* "idle", "returned" or "raised"
    op,          \* the function that was called
    aliased,     \* recursive_merge was given the same object twice
    left0,       \* recursive_merge: the value of left before the call
    right0,      \* recursive_merge: the value of right before the call
    left,        \* the value of the caller's left object
    right,       \* the value of the caller's right object
    doc,         \* the parsed content of the protocol file
    protocol,    \* get_protocol_inputs: the protocol argument
    overrides0,  \* get_protocol_inputs: the value of overrides before the call
    overrides,   \* the value of the caller's overrides object
    table,       \* the parsed content of magnetization.yaml
    family,      \* the pseudopotential family: element -> z_valence
    structure,   \* the kinds of the structure, in order
    result       \* what the call returned

mergeVars == <<aliased, left0, right0, left, right>>
protocolVars == <<doc, protocol, overrides0, overrides>>
magVars == <<table, family, structure>>
vars == <<pc, op, mergeVars, protocolVars, magVars, result>>

(***************************************************************************)
(* Bounds of the inputs.                                                   *)
(***************************************************************************)
\* Entries (keys, at any depth) of left and right together.
MaxMergeEntries == 5
\* Entries of base, of the parameters of the protocols and of the overrides
\* together.
MaxDocEntries == 4
\* Kinds of a structure.
MaxKinds == 2
\* Largest tabulated magnetic moment.
MaxMoment == 2
\* Largest valence-electron count.
MaxValence == 2

Keys == {"a", "b"}

Scalar(n) == [t |-> "scalar", v |-> <<n>>]
List(s) == [t |-> "seq", v |-> s]
Ref(a) == [t |-> "map", v |-> <<a>>]
MapNode == [t |-> "map", v |-> <<>>]

Leaves == {Scalar(1), Scalar(2), List(<<1>>)}

(***************************************************************************)
(* Trees: the deep value of a mapping.  A tree is a function from a        *)
(* prefix-closed set of non-empty key paths to nodes; a path that has      *)
(* children holds MapNode.                                                 *)
(***************************************************************************)
EmptyTree == <<>>

PathsUpTo(keys, n) == UNION {[1..m -> keys] : m \in 1..n}

CanAdd(t, p) ==
    /\ p \notin DOMAIN t
    /\ Len(p) > 1 => /\ SubSeq(p, 1, Len(p) - 1) \in DOMAIN t
                     /\ t[SubSeq(p, 1, Len(p) - 1)] = MapNode

RECURSIVE Trees(_, _, _)
Trees(keys, leaves, n) ==
    IF n = 0 THEN {EmptyTree}
    ELSE LET smaller == Trees(keys, leaves, n - 1)
         IN  smaller \cup
             { t @@ (p :> x) : <<t, p, x>> \in
                 { y \in smaller \X PathsUpTo(keys, n) \X (leaves \cup {MapNode}) :
                     CanAdd(y[1], y[2]) } }

TopKeys(t) == {p[1] : p \in DOMAIN t}

Sub(t, k) ==
    [q \in {Tail(p) : p \in {x \in DOMAIN t : x[1] = k /\ Len(x) > 1}} |-> t[<<k>> \o q]]

HasKey(t, k) == <<k>> \in DOMAIN t

IsMapAt(t, k) == HasKey(t, k) /\ t[<<k>>] = MapNode

\* What t holds under key k: the node and everything below it.
Item(t, k) == [node |-> t[<<k>>], sub |-> Sub(t, k)]

(***************************************************************************)
(* The heap.                                                               *)
(***************************************************************************)
EmptyDict == <<>>

SetItem(d, k, x) == [j \in DOMAIN d \cup {k} |-> IF j = k THEN x ELSE d[j]]

DelItem(d, k) == [j \in DOMAIN d \ {k} |-> d[j]]

RECURSIVE Alloc(_, _), AllocItems(_, _, _, _)
\* Builds the objects of tree t on heap h; res is the address of the root dict.
Alloc(h, t) ==
    LET built == AllocItems(h, t, TopKeys(t), EmptyDict)
    IN  [heap |-> Append(built.heap, built.dict), res |-> Len(built.heap) + 1]

AllocItems(h, t, todo, d) ==
    IF todo = {} THEN [heap |-> h, dict |-> d]
    ELSE LET k == CHOOSE x \in todo : TRUE
         IN  IF t[<<k>>] = MapNode
             THEN LET child == Alloc(h, Sub(t, k))
                  IN  AllocItems(child.heap, t, todo \ {k}, SetItem(d, k, Ref(child.res)))
             ELSE AllocItems(h, t, todo \ {k}, SetItem(d, k, t[<<k>>]))

RECURSIVE Paths(_, _), At(_, _, _)
Paths(h, a) ==
    UNION { {<<k>>} \cup
            (IF h[a][k].t = "map"
             THEN {<<k>> \o q : q \in Paths(h, h[a][k].v[1])}
             ELSE {}) : k \in DOMAIN h[a] }

At(h, a, p) ==
    LET x == h[a][p[1]]
    IN  IF Len(p) = 1
        THEN (IF x.t = "map" THEN MapNode ELSE x)
        ELSE At(h, x.v[1], Tail(p))

\* The deep value of the dict at address a.
Value(h, a) == [p \in Paths(h, a) |-> At(h, a, p)]

(***************************************************************************)
(* recursive_merge                                                         *)
(***************************************************************************)
\* isinstance(x, collections.abc.Mapping)
IsMapping(x) == x.t = "map"

\* dict.copy(): a new dict holding the same values (references are shared).
Copy(d) == [k \in DOMAIN d |-> d[k]]

\* Variants of Update: one that joins two sequences, one where the values of
\* d win, one that forgets d.
UpdateConcat(d, other) ==
    [k \in DOMAIN d \cup DOMAIN other |->
        IF k \in DOMAIN other
        THEN (IF k \in DOMAIN d /\ d[k].t = "seq" /\ other[k].t = "seq"
              THEN List(d[k].v \o other[k].v)
              ELSE other[k])
        ELSE d[k]]

UpdateKeepsLeft(d, other) ==
    [k \in DOMAIN d \cup DOMAIN other |-> IF k \in DOMAIN d THEN d[k] ELSE other[k]]

UpdateOnlyRight(d, other) == other

\* d.update(other)
Update(d, other) ==
    [k \in DOMAIN d \cup DOMAIN other |-> IF k \in DOMAIN other THEN other[k] ELSE d[k]]

RECURSIVE recursive_merge(_, _, _), MergeLoop(_, _, _, _)
\* The loop over left.items(): for a key of both whose two values are
\* mappings, right[key] is assigned the merge of the two.
MergeLoop(h, l, r, todo) ==
    IF todo = {} THEN h
    ELSE LET key == CHOOSE x \in todo : TRUE
             value == h[l][key]
         IN  IF key \in DOMAIN h[r] /\ IsMapping(value) /\ IsMapping(h[r][key])
             THEN LET sub == recursive_merge(h, value.v[1], h[r][key].v[1])
                  IN  MergeLoop([sub.heap EXCEPT ![r] = SetItem(@, key, Ref(sub.res))],
                                l, r, todo \ {key})
             ELSE MergeLoop(h, l, r, todo \ {key})

recursive_merge(h, l, r) ==
    LET h1 == MergeLoop(h, l, r, DOMAIN h[l])
        merged == Update(Copy(h1[l]), h1[r])
    IN  [heap |-> Append(h1, merged), res |-> Len(h1) + 1]

\* recursive_merge called on two separate objects holding lt and rt.
MergeCall(lt, rt) ==
    LET la == Alloc(<<>>, lt)
        ra == Alloc(la.heap, rt)
        out == recursive_merge(ra.heap, la.res, ra.res)
    IN  [result |-> Value(out.heap, out.res),
         left |-> Value(out.heap, la.res),
         right |-> Value(out.heap, ra.res)]

\* recursive_merge(x, x): both parameters are the same object.
MergeSelfCall(xt) ==
    LET xa == Alloc(<<>>, xt)
        out == recursive_merge(xa.heap, xa.res, xa.res)
    IN  [result |-> Value(out.heap, out.res),
         left |-> Value(out.heap, xa.res),
         right |-> Value(out.heap, xa.res)]

(***************************************************************************)
(* Calls of recursive_merge.                                               *)
(***************************************************************************)
Size(t) == Cardinality(DOMAIN t)

\* MergeInputs[n]: the mappings over Keys of at most n entries, nested ones included.
MergeInputs == [n \in 0..MaxMergeEntries |-> Trees(Keys, Leaves, n)]

NoProtocolCall ==
    /\ doc = <<>>
    /\ protocol = <<>>
    /\ overrides0 = <<>>
    /\ overrides = <<>>

NoMagnetizationCall ==
    /\ table = <<>>
    /\ family = <<>>
    /\ structure = <<>>

InitMerge ==
    /\ pc = "idle"
    /\ op = "none"
    /\ aliased = FALSE
    /\ \E trees \in {MergeInputs} :
          /\ left0 \in trees[MaxMergeEntries]
          /\ right0 \in trees[MaxMergeEntries - Size(left0)]
    /\ left = left0
    /\ right = right0
    /\ result = EmptyTree
    /\ NoProtocolCall
    /\ NoMagnetizationCall

RecursiveMerge ==
    /\ pc = "idle"
    /\ LET out == MergeCall(left0, right0)
       IN  /\ result' = out.result
           /\ left' = out.left
           /\ right' = out.right
    /\ pc' = "returned"
    /\ op' = "recursive_merge"
    /\ aliased' = FALSE
    /\ UNCHANGED <<left0, right0, protocolVars, magVars>>

\* recursive_merge(left, left)
RecursiveMergeSelf ==
    /\ pc = "idle"
    /\ LET out == MergeSelfCall(left0)
       IN  /\ result' = out.result
           /\ left' = out.left
           /\ right' = out.right
    /\ right0' = left0
    /\ pc' = "returned"
    /\ op' = "recursive_merge"
    /\ aliased' = TRUE
    /\ UNCHANGED <<left0, protocolVars, magVars>>

NextMerge == RecursiveMerge \/ RecursiveMergeSelf

SpecMerge == InitMerge /\ [][NextMerge]_vars

(***************************************************************************)
(* The protocol file and the functions that read it.                       *)
(***************************************************************************)
DocKeys == {"a", "description"}

DocLeaves == {Scalar(1), List(<<2>>)}

ProtocolNames == {"fast", "moderate"}

\* The description of each protocol of the file.
Description == [fast |-> Scalar(11), moderate |-> Scalar(12)]

\* A protocol argument: <<>> is None, <<name>> is the string name.
None == <<>>
ProtocolArgs == {None, <<"">>, <<"fast">>, <<"moderate">>, <<"precise">>}

\* DocTrees[n]: the mappings over DocKeys of at most n entries.
DocTrees == [n \in 0..MaxDocEntries |-> Trees(DocKeys, DocLeaves, n)]

\* A protocol of the file: its description and its override parameters.
ProtocolEntry(name, params) == params @@ (<<"description">> :> Description[name])

\* The parameters of a protocol: any of trees without a top-level description.
ProtocolParams(trees) == {t \in trees : ~HasKey(t, "description")}

\* load_protocol_file: the file is parsed anew on every call, into new objects.
load_protocol_file(h, d) ==
    LET b == Alloc(h, d.base)
        f == Alloc(b.heap, d.protocols["fast"])
        m == Alloc(f.heap, d.protocols["moderate"])
    IN  [heap |-> m.heap,
         default |-> d.default,
         base |-> b.res,
         protocols |-> [fast |-> f.res, moderate |-> m.res]]

\* Python truth of the protocol argument: None and '' are false.
Truthy(arg) == arg # None /\ arg[1] # ""

\* Python truth of the overrides argument: None and {} are false.
TruthyDict(h, arg) == arg # None /\ DOMAIN h[arg[1]] # {}

Raised(h, e) == [status |-> "raised", error |-> e, heap |-> h, res |-> 0]

Returned(out) == [status |-> "returned", error |-> "", heap |-> out.heap, res |-> out.res]

\* Variant of Pop: the key stays.
PopNothing(d, k) == d

\* d.pop(k) of a key that is there
Pop(d, k) == DelItem(d, k)

\* protocol or data['default']
SelectProtocol(arg, default) == IF Truthy(arg) THEN arg[1] ELSE default

\* The statements of get_protocol_inputs, last one first; inputs is the
\* outcome of a recursive_merge: a heap and the address of the merged dict.

\* if overrides: return recursive_merge(inputs, overrides)
\* return inputs
ApplyOverrides(inputs, ov) ==
    IF TruthyDict(inputs.heap, ov)
    THEN Returned(recursive_merge(inputs.heap, inputs.res, ov[1]))
    ELSE Returned(inputs)

\* inputs.pop('description'): a KeyError when the key is not there
PopDescription(inputs, ov) ==
    IF "description" \notin DOMAIN inputs.heap[inputs.res]
    THEN Raised(inputs.heap, "KeyError")
    ELSE ApplyOverrides(
             [heap |-> [inputs.heap EXCEPT ![inputs.res] = Pop(@, "description")],
              res |-> inputs.res],
             ov)

\* inputs = recursive_merge(data['base'], data['protocols'][protocol]):
\* a KeyError when the file has no such protocol
MergeProtocol(data, name, ov) ==
    IF name \notin DOMAIN data.protocols
    THEN Raised(data.heap, "KeyError")
    ELSE PopDescription(
             recursive_merge(data.heap, data.base, data.protocols[name]), ov)

\* protocol = protocol or data['default']
ChooseProtocol(data, arg, ov) ==
    MergeProtocol(data, SelectProtocol(arg, data.default), ov)

\* get_protocol_inputs, with the overrides object (if any) at address ov[1].
get_protocol_inputs(h, d, arg, ov) ==
    ChooseProtocol(load_protocol_file(h, d), arg, ov)

\* What the caller sees of an outcome: the value returned and the value of
\* its overrides object, at address ov[1] if there is one.
Observed(out, ov) ==
    [status |-> out.status,
     result |-> IF out.status = "returned" THEN Value(out.heap, out.res) ELSE EmptyTree,
     overrides |-> IF ov = None THEN None ELSE <<Value(out.heap, ov[1])>>]

\* The call with an overrides object just built, the last dict of heap h.
CallWithOverrides(h, d, arg) ==
    Observed(get_protocol_inputs(h, d, arg, <<Len(h)>>), <<Len(h)>>)

\* A call of get_protocol_inputs by a caller whose overrides argument is ovt:
\* None, or <<t>> for an object of value t.
ProtocolInputsCall(d, arg, ovt) ==
    IF ovt = None
    THEN Observed(get_protocol_inputs(<<>>, d, arg, None), None)
    ELSE CallWithOverrides(Alloc(<<>>, ovt[1]).heap, d, arg)

\* Variant of Available: every field of the protocol is kept.
AvailableWhole(values) == Copy(values)

\* {'description': values['description']}
Available(values) == "description" :> values["description"]

RECURSIVE AvailableItems(_, _, _, _)
\* The comprehension of get_available_protocols: for every protocol of the
\* file a new dict holding its description only.
AvailableItems(h, data, todo, d) ==
    IF todo = {} THEN [heap |-> Append(h, d), res |-> Len(h) + 1]
    ELSE LET n == CHOOSE x \in todo : TRUE
             values == h[data.protocols[n]]
             entry == Available(values)
         IN  AvailableItems(Append(h, entry), data, todo \ {n},
                            SetItem(d, n, Ref(Len(h) + 1)))

get_available_protocols(h, d) ==
    LET data == load_protocol_file(h, d)
    IN  AvailableItems(data.heap, data, DOMAIN data.protocols, EmptyDict)

AvailableProtocolsCall(d) ==
    LET out == get_available_protocols(<<>>, d)
    IN  Value(out.heap, out.res)

NoMergeCall ==
    /\ aliased = FALSE
    /\ left0 = EmptyTree
    /\ right0 = EmptyTree
    /\ left = EmptyTree
    /\ right = EmptyTree

InitProtocol ==
    /\ pc = "idle"
    /\ op = "none"
    /\ NoMergeCall
    /\ NoMagnetizationCall
    /\ protocol = None
    /\ result = EmptyTree
    /\ \E trees \in {DocTrees} :
       \E b \in trees[MaxDocEntries] :
       \E f \in ProtocolParams(trees[MaxDocEntries - Size(b)]) :
       \E m \in ProtocolParams(trees[MaxDocEntries - Size(b) - Size(f)]) :
          /\ doc \in [default : ProtocolNames,
                      base : {b},
                      protocols : {[fast |-> ProtocolEntry("fast", f),
                                    moderate |-> ProtocolEntry("moderate", m)]}]
          /\ overrides0 \in {None} \cup
                 {<<t>> : t \in trees[MaxDocEntries - Size(b) - Size(f) - Size(m)]}
    /\ overrides = overrides0

GetProtocolInputs ==
    /\ pc = "idle"
    /\ \E arg \in ProtocolArgs :
       \E out \in {ProtocolInputsCall(doc, arg, overrides0)} :
            /\ protocol' = arg
            /\ pc' = out.status
            /\ result' = out.result
            /\ overrides' = out.overrides
    /\ op' = "get_protocol_inputs"
    /\ UNCHANGED <<doc, overrides0, mergeVars, magVars>>

GetAvailableProtocols ==
    /\ pc = "idle"
    /\ result' = AvailableProtocolsCall(doc)
    /\ pc' = "returned"
    /\ op' = "get_available_protocols"
    /\ UNCHANGED <<protocolVars, mergeVars, magVars>>

NextProtocol == GetProtocolInputs \/ GetAvailableProtocols

SpecProtocol == InitProtocol /\ [][NextProtocol]_vars

(***************************************************************************)
(* get_initial_magnetization                                               *)
(***************************************************************************)
Elements == {"Fe", "O"}

\* The kinds a structure is made of: kind names are unique in a structure,
\* two kinds may have the same element.
Kinds == {[name |-> "Fe1", symbol |-> "Fe"],
          [name |-> "Fe2", symbol |-> "Fe"],
          [name |-> "O", symbol |-> "O"]}

\* Numbers are exact fractions in lowest terms.
Fraction(n, d) == [num |-> n, den |-> d]

RECURSIVE GCD(_, _)
GCD(x, y) == IF y = 0 THEN x ELSE GCD(y, x % y)

\* Variant of Divide: the valence count over the moment.
DivideSwapped(m, z) == Fraction(z \div GCD(m, z), m \div GCD(m, z))

\* magnetic_moment / float(z_valence), for z_valence > 0
Divide(m, z) == Fraction(m \div GCD(m, z), z \div GCD(m, z))

Defaults == {Fraction(1, 10), Fraction(1, 2)}

Tables ==
    [default : Defaults,
     magmom : UNION {[els -> 0..MaxMoment] : els \in SUBSET Elements}]

Families == UNION {[els -> 1..MaxValence] : els \in SUBSET Elements}

Injective(s) == \A i, j \in DOMAIN s : s[i] = s[j] => i = j

Structures == UNION {{s \in [1..n -> Kinds] : Injective(s)} : n \in 0..MaxKinds}

\* Variant of KindMoment: an element absent from the table gets the default.
KindMomentLenient(tbl, fam, kind) ==
    IF kind.symbol \notin DOMAIN tbl.magmom \/ tbl.magmom[kind.symbol] = 0
    THEN [status |-> "ok", value |-> tbl.default]
    ELSE IF kind.symbol \notin DOMAIN fam
         THEN [status |-> "ValueError", value |-> tbl.default]
         ELSE [status |-> "ok", value |-> Divide(tbl.magmom[kind.symbol], fam[kind.symbol])]

\* The body of the loop over structure.kinds: the moment of one kind, or the
\* error that the table lookup or pseudo_family.get_pseudo raises.
KindMoment(tbl, fam, kind) ==
    IF kind.symbol \notin DOMAIN tbl.magmom
    THEN [status |-> "KeyError", value |-> tbl.default]
    ELSE IF tbl.magmom[kind.symbol] = 0
         THEN [status |-> "ok", value |-> tbl.default]
         ELSE IF kind.symbol \notin DOMAIN fam
              THEN [status |-> "ValueError", value |-> tbl.default]
              ELSE [status |-> "ok",
                    value |-> Divide(tbl.magmom[kind.symbol], fam[kind.symbol])]

NoMapping == <<>>

RECURSIVE MagnetizationLoop(_, _, _, _, _)
MagnetizationLoop(tbl, fam, kinds, i, initial_magnetization) ==
    IF i > Len(kinds)
    THEN [status |-> "returned", result |-> initial_magnetization]
    ELSE LET m == KindMoment(tbl, fam, kinds[i])
         IN  IF m.status # "ok"
             THEN [status |-> "raised", result |-> NoMapping]
             ELSE MagnetizationLoop(tbl, fam, kinds, i + 1,
                      SetItem(initial_magnetization, kinds[i].name, m.value))

get_initial_magnetization(tbl, fam, kinds) ==
    MagnetizationLoop(tbl, fam, kinds, 1, EmptyDict)

InitMagnetization ==
    /\ pc = "idle"
    /\ op = "none"
    /\ NoMergeCall
    /\ NoProtocolCall
    /\ table \in Tables
    /\ family \in Families
    /\ structure \in Structures
    /\ result = NoMapping

GetInitialMagnetization ==
    /\ pc = "idle"
    /\ LET out == get_initial_magnetization(table, family, structure)
       IN  /\ pc' = out.status
           /\ result' = out.result
    /\ op' = "get_initial_magnetization"
    /\ UNCHANGED <<mergeVars, protocolVars, magVars>>

NextMagnetization == GetInitialMagnetization

SpecMagnetization == InitMagnetization /\ [][NextMagnetization]_vars

(***************************************************************************)
(* Properties of recursive_merge.                                          *)
(***************************************************************************)
Merged == pc = "returned" /\ op = "recursive_merge"

HasSeq(t) == \E p \in DOMAIN t : t[p].t = "seq"

HasNested(t) == \E p \in DOMAIN t : Len(p) > 1

\* C1: recursive_merge(left, right) has exactly the keys of left and right;
\* a key of left only holds left's value, a key of right only holds right's
\* value, a key of both whose two values are mappings holds the merge of the
\* two, and any other key of both holds right's value unchanged (a sequence
\* is replaced, never concatenated).
C1_MergeContract ==
    Merged =>
        /\ TopKeys(result) = TopKeys(left0) \cup TopKeys(right0)
        /\ \A k \in TopKeys(result) :
            IF ~HasKey(right0, k) THEN Item(result, k) = Item(left0, k)
            ELSE IF ~HasKey(left0, k) THEN Item(result, k) = Item(right0, k)
            ELSE IF IsMapAt(left0, k) /\ IsMapAt(right0, k)
                 THEN /\ result[<<k>>] = MapNode
                      /\ Sub(result, k) = MergeCall(Sub(left0, k), Sub(right0, k)).result
                 ELSE Item(result, k) = Item(right0, k)

\* A merge where some key of both holds two different mappings (merged
\* recursively) and some key of both holds a sequence on each side.
C1_Witness ==
    /\ Merged
    /\ ~aliased
    /\ \E k \in Keys : /\ IsMapAt(left0, k) /\ IsMapAt(right0, k)
                       /\ Sub(left0, k) # Sub(right0, k)
    /\ \E k \in Keys : /\ HasKey(left0, k) /\ HasKey(right0, k)
                       /\ left0[<<k>>].t = "seq" /\ right0[<<k>>].t = "seq"

\* C4 (as claimed): after recursive_merge(left, right) returns, left and
\* right, with every mapping nested in them, equal what they were before
\* the call; after get_protocol_inputs returns, the caller's overrides equal
\* what they were before the call, and a further call with the same object
\* returns what it returns for the overrides as they were.
C4_ArgumentsUnchanged ==
    /\ Merged => left = left0 /\ right = right0
    /\ (pc = "returned" /\ op = "get_protocol_inputs") =>
          /\ overrides = overrides0
          /\ \A arg \in ProtocolArgs :
                ProtocolInputsCall(doc, arg, overrides).result
                    = ProtocolInputsCall(doc, arg, overrides0).result

\* C5: recursive_merge(x, x) equals x, for x passed twice as the same object
\* and for two equal objects.
C5_Idempotent ==
    (Merged /\ left0 = right0) => result = left0

C5_Witness ==
    /\ Merged
    /\ aliased
    /\ left0 = right0
    /\ HasNested(left0)
    /\ HasSeq(left0)

\* C6: when left and right share no top-level key, the merge has the keys
\* of both and every key holds what it held in the mapping it came from.
C6_DisjointUnion ==
    (Merged /\ TopKeys(left0) \cap TopKeys(right0) = {}) =>
        /\ TopKeys(result) = TopKeys(left0) \cup TopKeys(right0)
        /\ \A k \in TopKeys(left0) : Item(result, k) = Item(left0, k)
        /\ \A k \in TopKeys(right0) : Item(result, k) = Item(right0, k)

C6_Witness ==
    /\ Merged
    /\ TopKeys(left0) \cap TopKeys(right0) = {}
    /\ TopKeys(left0) # {}
    /\ TopKeys(right0) # {}
    /\ HasNested(left0)

(***************************************************************************)
(* Properties of the protocol functions.                                   *)
(***************************************************************************)
GotInputs == pc = "returned" /\ op = "get_protocol_inputs"

\* The protocol the claims call selected: the given name, or the default
\* of the file when no name is given.
Selected == IF protocol = None THEN doc.default ELSE protocol[1]

\* C2: without overrides, get_protocol_inputs returns the merge of base and
\* the selected protocol less the top-level description: it has no top-level
\* description and agrees with the merge on every other key.
C2_NoOverrides ==
    (GotInputs /\ overrides0 = None /\ Selected \in DOMAIN doc.protocols) =>
        LET m == MergeCall(doc.base, doc.protocols[Selected]).result
        IN  /\ ~HasKey(result, "description")
            /\ TopKeys(result) = TopKeys(m) \ {"description"}
            /\ \A k \in TopKeys(result) : Item(result, k) = Item(m, k)

\* A named protocol that is not the default and differs from it in its
\* parameters, over a base that has a top-level description of its own.
C2_Witness ==
    /\ GotInputs
    /\ overrides0 = None
    /\ protocol # None
    /\ Selected \in DOMAIN doc.protocols
    /\ Selected # doc.default
    /\ HasKey(doc.base, "description")
    /\ result # EmptyTree
    /\ result # ProtocolInputsCall(doc, <<doc.default>>, None).result

\* p is a path that overrides ov do not touch: ov have nothing at p and no
\* leaf above p.
Untouched(ov, p) ==
    /\ p \notin DOMAIN ov
    /\ \A i \in 1..(Len(p) - 1) :
         SubSeq(p, 1, i) \in DOMAIN ov => ov[SubSeq(p, 1, i)] = MapNode

\* C3: with non-empty overrides, the result holds the overrides' value at
\* every path to a leaf of the overrides, and the value of the merge of base
\* and protocol at every path the overrides do not touch.
C3_OverridesWin ==
    (GotInputs /\ overrides0 # None /\ overrides0[1] # EmptyTree) =>
        LET ov == overrides0[1]
            inputs == ProtocolInputsCall(doc, protocol, None).result
        IN  /\ \A p \in DOMAIN ov :
                ov[p] # MapNode => p \in DOMAIN result /\ result[p] = ov[p]
            /\ \A p \in DOMAIN inputs :
                Untouched(ov, p) => p \in DOMAIN result /\ result[p] = inputs[p]

\* Overrides with a nested leaf where the merge of base and protocol holds
\* another leaf, for a protocol given by name.
C3_Witness ==
    /\ GotInputs
    /\ overrides0 # None
    /\ protocol # None
    /\ LET ov == overrides0[1]
           inputs == ProtocolInputsCall(doc, protocol, None).result
       IN  \E p \in DOMAIN ov \cap DOMAIN inputs :
                /\ Len(p) > 1
                /\ ov[p] # MapNode
                /\ inputs[p] # MapNode
                /\ inputs[p] # ov[p]

\* C8: get_available_protocols returns one entry per protocol of the file,
\* each a mapping with the single key description holding the description
\* of that protocol.
C8_AvailableProtocols ==
    (pc = "returned" /\ op = "get_available_protocols") =>
        /\ TopKeys(result) = DOMAIN doc.protocols
        /\ \A n \in DOMAIN doc.protocols :
            /\ result[<<n>>] = MapNode
            /\ Sub(result, n) =
                 (<<"description">> :> doc.protocols[n][<<"description">>])

C8_Witness ==
    /\ pc = "returned"
    /\ op = "get_available_protocols"
    /\ \A n \in DOMAIN doc.protocols : Size(doc.protocols[n]) > 1

\* C10 (as claimed): get_protocol_inputs given a protocol name that is not a
\* protocol of the file ends in an error and returns nothing, whatever the
\* overrides.
C10_UnknownProtocolRaises ==
    (op = "get_protocol_inputs" /\ protocol # None
        /\ protocol[1] \notin DOMAIN doc.protocols) =>
        pc = "raised" /\ result = EmptyTree

(***************************************************************************)
(* Properties of get_initial_magnetization.                                *)
(***************************************************************************)
Magnetized == op = "get_initial_magnetization"

KindsOf(s) == {s[i] : i \in DOMAIN s}

\* C7: the mapping returned has one entry per kind name; the entry of a kind
\* whose element has tabulated moment zero is the default of the table, and
\* the entry of any other kind is the tabulated moment over the valence count.
C7_Magnetization ==
    (Magnetized /\ pc = "returned") =>
        /\ DOMAIN result = {k.name : k \in KindsOf(structure)}
        /\ \A k \in KindsOf(structure) :
            /\ k.symbol \in DOMAIN table.magmom
            /\ IF table.magmom[k.symbol] = 0
               THEN result[k.name] = table.default
               ELSE /\ k.symbol \in DOMAIN family
                    /\ result[k.name].den > 0
                    /\ result[k.name].num * family[k.symbol]
                         = table.magmom[k.symbol] * result[k.name].den

\* A structure with a kind of moment zero whose element has no pseudo in the
\* family and a kind of nonzero moment that the valence does not divide.
C7_Witness ==
    /\ Magnetized
    /\ pc = "returned"
    /\ \E k \in KindsOf(structure) :
         table.magmom[k.symbol] = 0 /\ k.symbol \notin DOMAIN family
    /\ \E k \in KindsOf(structure) :
         /\ table.magmom[k.symbol] # 0
         /\ result[k.name].den > 1

Absent(k) == k.symbol \notin DOMAIN table.magmom

NoValence(k) == k.symbol \notin DOMAIN family

\* C9 (as claimed): the call fails and returns nothing whenever some kind has
\* an element absent from the table or without a valence count in the family,
\* kinds of tabulated moment zero included.
C9_FailsOnAnyMissingData ==
    (Magnetized /\ \E k \in KindsOf(structure) : Absent(k) \/ NoValence(k)) =>
        pc = "raised" /\ result = NoMapping

\* C9 (amended): the call fails and returns nothing whenever some kind has
\* an element absent from the table, or an element of nonzero tabulated
\* moment without a valence count in the family.
C9_FailsOnNeededData ==
    (Magnetized /\ \E k \in KindsOf(structure) :
        Absent(k) \/ (table.magmom[k.symbol] # 0 /\ NoValence(k))) =>
        pc = "raised" /\ result = NoMapping

\* The first kind has a nonzero moment and a valence count, so its entry is
\* computed, and the element of the second kind is absent from the table.
C9_Witness ==
    /\ Magnetized
    /\ pc = "raised"
    /\ Len(structure) > 1
    /\ ~Absent(structure[1])
    /\ table.magmom[structure[1].symbol] # 0
    /\ ~NoValence(structure[1])
    /\ Absent(structure[2])

====
